---- MODULE Spec2Model ----
(***************************************************************************)
(* Vetra AI (src/main.py): credential lifecycle and request admission.     *)
(*                                                                         *)
(* The durable store holds three tables (users, api_keys, audit_logs).     *)
(* /register, /create_key and /ask are the handlers that touch them.  An   *)
(* /ask request is a coroutine; it is modelled as one step per stretch of  *)
(* code that runs against one database statement:                          *)
(*     start   lines 234-237  check_prompt, Authorization header           *)
(*     verify  lines 238-252  SELECT of the non-revoked rows and the scan  *)
(*     update  lines 254-255  UPDATE api_keys SET uses=uses+1              *)
(*     audit   line  257      record_audit (INSERT INTO audit_logs)        *)
(*     respond lines 258-259  brain.respond and the JSON answer            *)
(* Requests of different connections interleave between these steps.      *)
(* The slowapi rate limiter, CORS and the metrics are outside the model.   *)
(***************************************************************************)
EXTENDS Integers, Sequences, FiniteSets, TLC

(***************************************************************************)
(* Bounds of the model.                                                    *)
(***************************************************************************)
MaxKeys == 2         \* rows of api_keys
MaxRemaining == 1    \* quota left on the row that exists at startup
MaxTicks == 1        \* seconds the clock advances after startup
MaxWords == 3        \* words of a prompt handed to the firewall on its own

(***************************************************************************)
(* Program constants.                                                      *)
(***************************************************************************)
API_KEY_MAX_USES == 1000
API_KEY_EXPIRE_DAYS == 30
MaxPromptLen == 4000
ShortMemory == 10

ExpireSecs == API_KEY_EXPIRE_DAYS * 24 * 60 * 60

(***************************************************************************)
(* Procs are the connections that carry one /ask request each, Sessions    *)
(* the browser sessions that call /register and /create_key.  ClientHost   *)
(* and SessionHost are request.client.host of their requests.              *)
(***************************************************************************)
Procs == {1, 2}

ClientHost(p) == IF p = 1 THEN "ip1" ELSE "ip2"

SessionHost(s) == "ip2"
NoIP == "None"
Sessions == {"s1"}
RawEmails == {"Ann@x"}
NoEmail == "None"
NoHeader == -1
UnknownPlain == 0
Salts == {1}

(***************************************************************************)
(* str.lower() on the strings the model uses.                              *)
(***************************************************************************)
Lower(s) ==
    CASE s = "Ann@x" -> "ann@x"
      [] s = "Hack" -> "hack"
      [] s = "ROOT" -> "root"
      [] OTHER -> s

LowerAll(ws) == [i \in DOMAIN ws |-> Lower(ws[i])]

(***************************************************************************)
(* Prompts.  A prompt is its character count and the sequence of its       *)
(* policy-relevant words in order; "nl" stands for a line break.           *)
(***************************************************************************)
Prompts ==
    { [len |-> 24,   words |-> <<"please", "explain">>],
      [len |-> 4,    words |-> <<"Hack">>],
      [len |-> 4001, words |-> <<"please", "explain">>] }

NoPrompt == [len |-> 0, words |-> <<>>]

(***************************************************************************)
(* BLOCK_PATTERNS and re.search.  Pattern 1 is                             *)
(* (ignore|bypass).*(rules|system): the two words in that order with no    *)
(* line break between them.  Patterns 2 and 3 are plain alternations.      *)
(***************************************************************************)
BLOCK_PATTERNS == <<1, 2, 3>>

re_search(p, ws) ==
    CASE p = 1 -> \E i \in DOMAIN ws : \E j \in DOMAIN ws :
                     /\ i < j
                     /\ ws[i] \in {"ignore", "bypass"}
                     /\ ws[j] \in {"rules", "system"}
                     /\ \A k \in i..j : ws[k] # "nl"
      [] p = 2 -> \E i \in DOMAIN ws : ws[i] \in {"hack", "crack", "steal", "ddos"}
      [] p = 3 -> \E i \in DOMAIN ws : ws[i] \in {"admin", "root", "password"}

check_prompt_NoLower(prompt) ==
    IF prompt.len > MaxPromptLen THEN "TooLong"
    ELSE IF \E i \in DOMAIN BLOCK_PATTERNS :
               re_search(BLOCK_PATTERNS[i], prompt.words)
         THEN "BlockedPattern"
         ELSE "ok"

check_prompt_PatternsFirst(prompt) ==
    IF \E i \in DOMAIN BLOCK_PATTERNS :
          re_search(BLOCK_PATTERNS[i], LowerAll(prompt.words))
    THEN "BlockedPattern"
    ELSE IF prompt.len > MaxPromptLen THEN "TooLong"
         ELSE "ok"

check_prompt(prompt) ==
    IF prompt.len > MaxPromptLen THEN "TooLong"
    ELSE IF \E i \in DOMAIN BLOCK_PATTERNS :
               re_search(BLOCK_PATTERNS[i], LowerAll(prompt.words))
         THEN "BlockedPattern"
         ELSE "ok"

(***************************************************************************)
(* Key codec and vault.                                                    *)
(***************************************************************************)
generate_api_key(n) == n

hash_key(plain, salt) == [alg |-> "bcrypt", salt |-> salt, digest |-> plain]

(* bcrypt.checkpw raises ValueError on a string that is no bcrypt hash;     *)
(* verify_key does not catch it.  verify_key is its value when it returns. *)
verify_key_raises(hashed) == hashed.alg # "bcrypt"

verify_key(plain, hashed) == hashed.alg = "bcrypt" /\ hashed.digest = plain

encrypt_data(data) == [token |-> "fernet", payload |-> data]

VARIABLES now, session, users, keys, audit, short_memory, long_memory,
          createResp, req

vars == <<now, session, users, keys, audit, short_memory, long_memory,
          createResp, req>>

IdleReq ==
    [pc |-> "idle", prompt |-> NoPrompt, key |-> NoHeader, ip |-> NoIP,
     email |-> NoEmail, api_key_id |-> 0, row_uses |-> 0, audits |-> 0,
     result |-> "none"]

(***************************************************************************)
(* The service starts at time StartTime.  The row of api_keys that exists   *)
(* then was issued by create_key at time t, ExpireSecs or ExpireSecs - 1   *)
(* seconds earlier, and has been used u times since.                       *)
(***************************************************************************)
StartTime == ExpireSecs

StartupRow(u, t) ==
    [id |-> 1, email |-> "bob@x", key_hash |-> hash_key(generate_api_key(1), 1),
     uses |-> u, max_uses |-> API_KEY_MAX_USES, revoked |-> FALSE,
     expires_at |-> t + ExpireSecs, created |-> t, bound_ip |-> "ip1"]

Init ==
    /\ now = StartTime
    /\ session = [s \in Sessions |-> NoEmail]
    /\ users = {"bob@x"}
    /\ keys \in { <<StartupRow(u, t)>> :
                    u \in (API_KEY_MAX_USES - MaxRemaining)..API_KEY_MAX_USES,
                    t \in {0, 1} }
    /\ audit = <<>>
    /\ short_memory = [u \in {} |-> <<>>]
    /\ long_memory = [u \in {} |-> <<>>]
    /\ createResp = [s \in Sessions |-> "none"]
    /\ req = [p \in Procs |-> IdleReq]

Tick ==
    /\ now < StartTime + MaxTicks
    /\ now' = now + 1
    /\ UNCHANGED <<session, users, keys, audit, short_memory, long_memory,
                   createResp, req>>

(***************************************************************************)
(* POST /register: INSERT ... ON CONFLICT DO NOTHING, then the session     *)
(* cookie carries the lower-cased e-mail.                                  *)
(***************************************************************************)
Register(s, raw) ==
    /\ users' = users \cup {Lower(raw)}
    /\ session' = [session EXCEPT ![s] = Lower(raw)]
    /\ UNCHANGED <<now, keys, audit, short_memory, long_memory, createResp, req>>

(***************************************************************************)
(* POST /create_key.                                                       *)
(***************************************************************************)
NewKeyRow_DaysAsSeconds(n, email, salt, t, client_ip) ==
    [id |-> n, email |-> email, key_hash |-> hash_key(generate_api_key(n), salt),
     uses |-> 0, max_uses |-> API_KEY_MAX_USES, revoked |-> FALSE,
     expires_at |-> t + API_KEY_EXPIRE_DAYS, created |-> t, bound_ip |-> client_ip]

NewKeyRow(n, email, salt, t, client_ip) ==
    [id |-> n, email |-> email, key_hash |-> hash_key(generate_api_key(n), salt),
     uses |-> 0, max_uses |-> API_KEY_MAX_USES, revoked |-> FALSE,
     expires_at |-> t + ExpireSecs, created |-> t, bound_ip |-> client_ip]

CreateKeyNotLoggedIn(s) ==
    /\ session[s] = NoEmail
    /\ createResp[s] # "401"
    /\ createResp' = [createResp EXCEPT ![s] = "401"]
    /\ UNCHANGED <<now, session, users, keys, audit, short_memory, long_memory, req>>

CreateKey(s, salt) ==
    /\ session[s] # NoEmail
    /\ Len(keys) < MaxKeys
    /\ keys' = Append(keys, NewKeyRow(Len(keys) + 1, session[s], salt, now, SessionHost(s)))
    /\ createResp' = [createResp EXCEPT ![s] = "api_key"]
    /\ UNCHANGED <<now, session, users, audit, short_memory, long_memory, req>>

(***************************************************************************)
(* revoke(keyId): sets the revoked flag; never reversed.                   *)
(***************************************************************************)
Revoke(i) ==
    /\ i \in DOMAIN keys
    /\ ~keys[i].revoked
    /\ keys' = [keys EXCEPT ![i].revoked = TRUE]
    /\ UNCHANGED <<now, session, users, audit, short_memory, long_memory,
                   createResp, req>>

(***************************************************************************)
(* POST /ask, lines 234-237.                                               *)
(***************************************************************************)
Finish(r, kind) == [r EXCEPT !.pc = "done", !.result = kind]

AskStart_NoFirewall(p, prompt, key) ==
    /\ req[p].pc = "idle"
    /\ LET r == [IdleReq EXCEPT !.prompt = prompt, !.key = key, !.ip = ClientHost(p)]
       IN  req' = [req EXCEPT ![p] =
                     IF key = NoHeader THEN Finish(r, "MissingKey")
                     ELSE [r EXCEPT !.pc = "verify"]]
    /\ UNCHANGED <<now, session, users, keys, audit, short_memory, long_memory,
                   createResp>>

AskStart(p, prompt, key) ==
    /\ req[p].pc = "idle"
    /\ LET r == [IdleReq EXCEPT !.prompt = prompt, !.key = key, !.ip = ClientHost(p)]
       IN  req' = [req EXCEPT ![p] =
                     IF check_prompt(prompt) # "ok" THEN Finish(r, check_prompt(prompt))
                     ELSE IF key = NoHeader THEN Finish(r, "MissingKey")
                     ELSE [r EXCEPT !.pc = "verify"]]
    /\ UNCHANGED <<now, session, users, keys, audit, short_memory, long_memory,
                   createResp>>

(***************************************************************************)
(* POST /ask, lines 238-252: the rows WHERE revoked=false, scanned in      *)
(* order up to the first one whose hash verifies.  An exception of         *)
(* verify_key leaves the handler and the request ends with a 500.          *)
(***************************************************************************)
Candidates(ks) == SelectSeq(ks, LAMBDA r : r.revoked = FALSE)

FirstMatch(rows, key) ==
    LET m == {i \in DOMAIN rows : verify_key(key, rows[i].key_hash)}
    IN  IF m = {} THEN 0 ELSE CHOOSE i \in m : \A j \in m : i <= j

ScanRaises(rows, key) ==
    \E i \in DOMAIN rows :
        /\ verify_key_raises(rows[i].key_hash)
        /\ \A j \in 1..(i - 1) : ~verify_key(key, rows[j].key_hash)

IsExpired(r, t) == r.expires_at < t

LimitReached_Strict(r) == r.uses > r.max_uses

LimitReached(r) == r.uses >= r.max_uses

AskVerify_ConsumeFirst(p) ==
    /\ req[p].pc = "verify"
    /\ LET rows == Candidates(keys)
           m == FirstMatch(rows, req[p].key)
           found(r) == [r EXCEPT !.email = rows[m].email, !.api_key_id = rows[m].id,
                                 !.row_uses = rows[m].uses]
       IN  /\ req' = [req EXCEPT ![p] =
                        IF m = 0 THEN Finish(@, "NotFound")
                        ELSE IF IsExpired(rows[m], now) THEN Finish(found(@), "Expired")
                        ELSE IF LimitReached(rows[m])
                             THEN Finish(found(@), "QuotaExhausted")
                        ELSE [found(@) EXCEPT !.pc = "audit"]]
           /\ keys' = [i \in DOMAIN keys |->
                         IF m # 0 /\ keys[i].id = rows[m].id
                         THEN [keys[i] EXCEPT !.uses = @ + 1]
                         ELSE keys[i]]
    /\ UNCHANGED <<now, session, users, audit, short_memory, long_memory, createResp>>

AskVerify(p) ==
    /\ req[p].pc = "verify"
    /\ LET rows == Candidates(keys)
           m == FirstMatch(rows, req[p].key)
       IN  req' = [req EXCEPT ![p] =
                     IF ScanRaises(rows, req[p].key) THEN Finish(@, "UnhandledError")
                     ELSE IF m = 0 THEN Finish(@, "NotFound")
                     ELSE IF IsExpired(rows[m], now)
                          THEN Finish([@ EXCEPT !.email = rows[m].email,
                                                !.api_key_id = rows[m].id,
                                                !.row_uses = rows[m].uses], "Expired")
                     ELSE IF LimitReached(rows[m])
                          THEN Finish([@ EXCEPT !.email = rows[m].email,
                                                !.api_key_id = rows[m].id,
                                                !.row_uses = rows[m].uses], "QuotaExhausted")
                     ELSE [@ EXCEPT !.pc = "update", !.email = rows[m].email,
                                    !.api_key_id = rows[m].id,
                                    !.row_uses = rows[m].uses]]
    /\ UNCHANGED <<now, session, users, keys, audit, short_memory, long_memory,
                   createResp>>

(***************************************************************************)
(* POST /ask, lines 254-255: UPDATE api_keys SET uses=uses+1 WHERE id=$1.  *)
(***************************************************************************)
AskUpdate_SkipAudit(p) ==
    /\ req[p].pc = "update"
    /\ keys' = [i \in DOMAIN keys |->
                  IF keys[i].id = req[p].api_key_id
                  THEN [keys[i] EXCEPT !.uses = @ + 1]
                  ELSE keys[i]]
    /\ req' = [req EXCEPT ![p].pc = "respond"]
    /\ UNCHANGED <<now, session, users, audit, short_memory, long_memory, createResp>>

AskUpdate_ReadThenWrite(p) ==
    /\ req[p].pc = "update"
    /\ keys' = [i \in DOMAIN keys |->
                  IF keys[i].id = req[p].api_key_id
                  THEN [keys[i] EXCEPT !.uses = req[p].row_uses + 1]
                  ELSE keys[i]]
    /\ req' = [req EXCEPT ![p].pc = "audit"]
    /\ UNCHANGED <<now, session, users, audit, short_memory, long_memory, createResp>>

AskUpdate(p) ==
    /\ req[p].pc = "update"
    /\ keys' = [i \in DOMAIN keys |->
                  IF keys[i].id = req[p].api_key_id
                  THEN [keys[i] EXCEPT !.uses = @ + 1]
                  ELSE keys[i]]
    /\ req' = [req EXCEPT ![p].pc = "audit"]
    /\ UNCHANGED <<now, session, users, audit, short_memory, long_memory, createResp>>

(***************************************************************************)
(* record_audit, called at line 257.  The INSERT either commits or raises; *)
(* ask does not catch the exception.                                       *)
(***************************************************************************)
record_audit_Upsert(api_key_id, email, endpoint, meta) ==
    LET entry(n) == [id |-> n, api_key_id |-> api_key_id, email |-> email,
                     endpoint |-> endpoint, meta |-> encrypt_data(meta), ts |-> now]
        old == {n \in DOMAIN audit : audit[n].api_key_id = api_key_id}
    IN  IF old = {} THEN Append(audit, entry(Len(audit) + 1))
        ELSE [n \in DOMAIN audit |-> IF n \in old THEN entry(n) ELSE audit[n]]

record_audit(api_key_id, email, endpoint, meta) ==
    Append(audit, [id |-> Len(audit) + 1, api_key_id |-> api_key_id,
                   email |-> email, endpoint |-> endpoint,
                   meta |-> encrypt_data(meta), ts |-> now])

AskAudit_NoKeyId(p) ==
    /\ req[p].pc = "audit"
    /\ audit' = record_audit(0, req[p].email, "/ask",
                             [prompt_len |-> req[p].prompt.len])
    /\ req' = [req EXCEPT ![p].pc = "respond", ![p].audits = @ + 1]
    /\ UNCHANGED <<now, session, users, keys, short_memory, long_memory, createResp>>

AskAudit(p) ==
    /\ req[p].pc = "audit"
    /\ audit' = record_audit(req[p].api_key_id, req[p].email, "/ask",
                             [prompt_len |-> req[p].prompt.len])
    /\ req' = [req EXCEPT ![p].pc = "respond", ![p].audits = @ + 1]
    /\ UNCHANGED <<now, session, users, keys, short_memory, long_memory, createResp>>

AskAuditFail_Swallowed(p) ==
    /\ req[p].pc = "audit"
    /\ req' = [req EXCEPT ![p].pc = "respond"]
    /\ UNCHANGED <<now, session, users, keys, audit, short_memory, long_memory,
                   createResp>>

AskAuditFail(p) ==
    /\ req[p].pc = "audit"
    /\ req' = [req EXCEPT ![p] = Finish(@, "StorePersistenceFailure")]
    /\ UNCHANGED <<now, session, users, keys, audit, short_memory, long_memory,
                   createResp>>

(***************************************************************************)
(* CustomBrain.respond and the answer of /ask, lines 258-259.              *)
(***************************************************************************)
Recall(memory, user) == IF user \in DOMAIN memory THEN memory[user] ELSE <<>>

Remember(memory, user, entries) ==
    [u \in DOMAIN memory \cup {user} |-> IF u = user THEN entries ELSE memory[u]]

LastN(s, n) == IF Len(s) <= n THEN s ELSE SubSeq(s, Len(s) - n + 1, Len(s))

AskRespond_AfterOthers(p) ==
    /\ req[p].pc = "respond"
    /\ \A q \in Procs \ {p} : req[q].pc # "respond"
    /\ short_memory' = Remember(short_memory, req[p].email,
                          LastN(Append(Recall(short_memory, req[p].email),
                                       req[p].prompt), ShortMemory))
    /\ long_memory' = Remember(long_memory, req[p].email,
                          Append(Recall(long_memory, req[p].email), req[p].prompt))
    /\ req' = [req EXCEPT ![p] = Finish(@, "ok")]
    /\ UNCHANGED <<now, session, users, keys, audit, createResp>>

AskRespond(p) ==
    /\ req[p].pc = "respond"
    /\ short_memory' = Remember(short_memory, req[p].email,
                          LastN(Append(Recall(short_memory, req[p].email),
                                       req[p].prompt), ShortMemory))
    /\ long_memory' = Remember(long_memory, req[p].email,
                          Append(Recall(long_memory, req[p].email), req[p].prompt))
    /\ req' = [req EXCEPT ![p] = Finish(@, "ok")]
    /\ UNCHANGED <<now, session, users, keys, audit, createResp>>

(***************************************************************************)
(* Authorization headers a client can send: none, a string that is no      *)
(* issued key, or the plaintext of an issued key.                          *)
(***************************************************************************)
Headers == {NoHeader, UnknownPlain} \cup {generate_api_key(i) : i \in DOMAIN keys}

Next ==
    \/ Tick
    \/ \E s \in Sessions, raw \in RawEmails : Register(s, raw)
    \/ \E s \in Sessions : CreateKeyNotLoggedIn(s)
    \/ \E s \in Sessions, salt \in Salts : CreateKey(s, salt)
    \/ \E i \in 1..MaxKeys : Revoke(i)
    \/ \E p \in Procs, prompt \in Prompts, key \in Headers : AskStart(p, prompt, key)
    \/ \E p \in Procs : AskVerify(p)
    \/ \E p \in Procs : AskUpdate(p)
    \/ \E p \in Procs : AskAudit(p)
    \/ \E p \in Procs : AskAuditFail(p)
    \/ \E p \in Procs : AskRespond(p)

(***************************************************************************)
(* Vocabulary of the properties.                                           *)
(***************************************************************************)
VerifyStep(p) == req[p].pc = "verify" /\ req'[p].pc # "verify"

OthersQuiet(p) == \A q \in Procs \ {p} : req[q].pc \in {"idle", "done"}

Presented(p, i) == verify_key(req[p].key, keys[i].key_hash)

Rejected(r, kind) == r.pc = "done" /\ r.result = kind

Admitted(r, row) ==
    r.pc = "update" /\ r.email = row.email /\ r.api_key_id = row.id

OnlyRequest(p) == \A q \in Procs \ {p} : req[q].pc = "idle"

Disallowed(prompt) ==
    \/ prompt.len > 4000
    \/ \E i \in DOMAIN prompt.words :
          Lower(prompt.words[i]) \in {"hack", "crack", "steal", "ddos",
                                      "admin", "root", "password"}
    \/ \E i \in DOMAIN prompt.words : \E j \in DOMAIN prompt.words :
          /\ i < j
          /\ Lower(prompt.words[i]) \in {"ignore", "bypass"}
          /\ Lower(prompt.words[j]) \in {"rules", "system"}
          /\ \A k \in i..j : prompt.words[k] # "nl"

RECURSIVE SumOver(_, _)
SumOver(f, S) ==
    IF S = {} THEN 0
    ELSE LET x == CHOOSE y \in S : TRUE IN f[x] + SumOver(f, S \ {x})

BrainCalls == SumOver([u \in DOMAIN long_memory |-> Len(long_memory[u])],
                      DOMAIN long_memory)

(***************************************************************************)
(* C1.  Requests that have passed the use-limit check of a key and have    *)
(* not yet incremented its counter never outnumber the quota that remains  *)
(* on the key: of N concurrent requests at most max_uses - uses are        *)
(* admitted.                                                               *)
(***************************************************************************)
C1_AdmittedWithinQuota ==
    \A i \in DOMAIN keys :
        Cardinality({p \in Procs : req[p].pc = "update"
                                     /\ req[p].api_key_id = keys[i].id})
            <= keys[i].max_uses - keys[i].uses

(***************************************************************************)
(* C2.  For every key uses <= max_uses, and no step decreases uses.        *)
(***************************************************************************)
C2_CounterBoundedMonotone ==
    [][\A i \in DOMAIN keys :
          /\ keys[i].uses <= keys[i].max_uses
          /\ keys'[i].uses <= keys'[i].max_uses
          /\ keys'[i].uses >= keys[i].uses]_vars

(***************************************************************************)
(* C3.  With no other request in flight, the credential check of a request *)
(* that presents a non-revoked, non-expired key admits it with the key's   *)
(* owner while uses < max_uses and rejects it with QuotaExhausted once     *)
(* uses has reached max_uses; an admitted request consumes one use, and a  *)
(* successful answer names the owner of the key.                           *)
(***************************************************************************)
C3_SequentialQuota ==
    [][\A p \in Procs :
          /\ (VerifyStep(p) /\ OthersQuiet(p)) =>
                \A i \in DOMAIN keys :
                    (Presented(p, i) /\ ~keys[i].revoked /\ now < keys[i].expires_at) =>
                        IF keys[i].uses < keys[i].max_uses
                        THEN Admitted(req'[p], keys[i])
                        ELSE Rejected(req'[p], "QuotaExhausted")
          /\ (req[p].pc = "update" /\ req'[p].pc # "update") =>
                keys'[req[p].api_key_id].uses = keys[req[p].api_key_id].uses + 1
          /\ req'[p].result = "ok" =>
                req'[p].email = keys'[req'[p].api_key_id].email]_vars

C3_Witness ==
    \E p \in Procs : \E q \in Procs :
        /\ req[p].result = "ok"
        /\ req[q].result = "QuotaExhausted"
        /\ req[p].api_key_id = req[q].api_key_id
        /\ req[p].email = keys[req[p].api_key_id].email
        /\ keys[req[p].api_key_id].uses = keys[req[p].api_key_id].max_uses

(***************************************************************************)
(* C4.  No step of a request whose prompt the firewall rejects changes the *)
(* key table or the audit log.                                             *)
(***************************************************************************)
C4_FirewallRejectionWritesNothing ==
    [][\A p \in Procs :
          (req'[p] # req[p] /\ check_prompt(req'[p].prompt) # "ok") =>
              (keys' = keys /\ audit' = audit)]_vars

C4_Witness ==
    \E p \in Procs : \E i \in DOMAIN keys :
        /\ req[p].result \in {"TooLong", "BlockedPattern"}
        /\ Presented(p, i)
        /\ ~keys[i].revoked
        /\ now < keys[i].expires_at
        /\ keys[i].uses < keys[i].max_uses
        /\ keys[i].bound_ip = ClientHost(p)

(***************************************************************************)
(* C5.  Every prompt handed to brain.respond is within the length ceiling  *)
(* and matches no blocked pattern.                                         *)
(***************************************************************************)
C5_NoDisallowedPromptForwarded ==
    \A u \in DOMAIN long_memory :
        \A i \in DOMAIN long_memory[u] : ~Disallowed(long_memory[u][i])

C5_Witness ==
    /\ \E u \in DOMAIN long_memory : Len(long_memory[u]) > 0
    /\ \E p \in Procs : req[p].result \in {"BlockedPattern", "TooLong"}

(***************************************************************************)
(* C6.  The credential check of a request that presents the plaintext of a *)
(* revoked key ends with Revoked and leaves the key table unchanged.       *)
(***************************************************************************)
C6_RevokedReported ==
    [][\A p \in Procs :
          (VerifyStep(p) /\ \E i \in DOMAIN keys : Presented(p, i) /\ keys[i].revoked) =>
              (Rejected(req'[p], "Revoked") /\ keys' = keys)]_vars

(***************************************************************************)
(* C7.  The credential check of a request that presents an otherwise       *)
(* usable key from an address other than the key's bound address ends with *)
(* AddressMismatch.                                                        *)
(***************************************************************************)
C7_BoundAddressEnforced ==
    [][\A p \in Procs :
          VerifyStep(p) =>
              \A i \in DOMAIN keys :
                  ( /\ Presented(p, i)
                    /\ ~keys[i].revoked
                    /\ now < keys[i].expires_at
                    /\ keys[i].uses < keys[i].max_uses
                    /\ keys[i].bound_ip # NoIP
                    /\ keys[i].bound_ip # req[p].ip ) =>
                      (Rejected(req'[p], "AddressMismatch") /\ keys' = keys)]_vars

(***************************************************************************)
(* C8.  The credential check of a request that presents a non-revoked key  *)
(* ends with Expired whenever now >= expires_at, and never ends with       *)
(* Expired when now < expires_at.                                          *)
(***************************************************************************)
C8_ExpiredFromExpiration ==
    [][\A p \in Procs :
          VerifyStep(p) =>
              \A i \in DOMAIN keys :
                  (Presented(p, i) /\ ~keys[i].revoked) =>
                      /\ now >= keys[i].expires_at =>
                            (Rejected(req'[p], "Expired") /\ keys' = keys)
                      /\ now < keys[i].expires_at => req'[p].result # "Expired"]_vars

(***************************************************************************)
(* C9.  When the presented plaintext matches a stored key and two or more  *)
(* of its admission checks fail at once, the credential check reports the  *)
(* first failing one in the order Expired, Revoked, QuotaExhausted,        *)
(* AddressMismatch; NotFound is reported only when no stored hash matches. *)
(* (The instant now = expires_at is left to C8.)                           *)
(***************************************************************************)
FailedChecks(row, ip) ==
    (IF now > row.expires_at THEN {"Expired"} ELSE {})
    \cup (IF row.revoked THEN {"Revoked"} ELSE {})
    \cup (IF row.uses >= row.max_uses THEN {"QuotaExhausted"} ELSE {})
    \cup (IF row.bound_ip # NoIP /\ row.bound_ip # ip THEN {"AddressMismatch"} ELSE {})

FirstFailure(row, ip) ==
    LET order == <<"Expired", "Revoked", "QuotaExhausted", "AddressMismatch">>
        f == FailedChecks(row, ip)
    IN  order[CHOOSE n \in 1..4 : order[n] \in f /\ \A m \in 1..(n - 1) : order[m] \notin f]

C9_ErrorPriority ==
    [][\A p \in Procs :
          VerifyStep(p) =>
              \A i \in DOMAIN keys :
                  (Presented(p, i) /\ now # keys[i].expires_at) =>
                      /\ req'[p].result # "NotFound"
                      /\ Cardinality(FailedChecks(keys[i], req[p].ip)) >= 2 =>
                            Rejected(req'[p], FirstFailure(keys[i], req[p].ip))]_vars

(***************************************************************************)
(* C10.  A request whose audit write failed is finished without an answer  *)
(* and without a call of brain.respond; a request that is about to be      *)
(* forwarded or has been answered has exactly one committed audit entry,   *)
(* and brain.respond has been called once per answered request.            *)
(***************************************************************************)
C10_FailClosed ==
    /\ \A p \in Procs :
          /\ (req[p].pc = "respond" \/ req[p].result = "ok") => req[p].audits = 1
          /\ req[p].result = "StorePersistenceFailure" =>
                (req[p].pc = "done" /\ req[p].audits = 0)
    /\ Len(audit) = SumOver([p \in Procs |-> req[p].audits], Procs)
    /\ BrainCalls = Cardinality({p \in Procs : req[p].result = "ok"})

C10_Witness ==
    \E p \in Procs : \E q \in Procs :
        /\ req[p].result = "StorePersistenceFailure"
        /\ req[q].result = "ok"
        /\ Len(audit) = 1

(***************************************************************************)
(* C11.  A request that passed the credential check and whose audit write  *)
(* failed leaves the use counter of its key at the value the request read, *)
(* when it is the only request that has run.                               *)
(***************************************************************************)
C11_NoQuotaLostOnAuditFailure ==
    \A p \in Procs :
        (req[p].result = "StorePersistenceFailure" /\ OnlyRequest(p)) =>
            /\ req[p].pc = "done"
            /\ keys[req[p].api_key_id].uses = req[p].row_uses

(***************************************************************************)
(* C12.  Stage order of a request.  A step that increments a use counter   *)
(* is the step of a request whose prompt the firewall admits; a step that  *)
(* commits an audit entry is the step of a request whose increment is      *)
(* already in the counter; a step that calls brain.respond and returns the *)
(* answer is the step of a request whose audit entry is committed.         *)
(***************************************************************************)
AuditedFor(r) ==
    \E n \in DOMAIN audit :
        /\ audit[n].api_key_id = r.api_key_id
        /\ audit[n].email = r.email
        /\ audit[n].meta = encrypt_data([prompt_len |-> r.prompt.len])

C12_StageOrder ==
    [][/\ (\E i \in DOMAIN keys : keys'[i].uses # keys[i].uses) =>
              \E p \in Procs :
                  /\ req[p].pc = "update" /\ req'[p].pc = "audit"
                  /\ ~Disallowed(req[p].prompt)
                  /\ req[p].audits = 0
       /\ audit' # audit =>
              \E p \in Procs :
                  /\ req[p].pc = "audit" /\ req'[p].pc = "respond"
                  /\ keys[req[p].api_key_id].uses > req[p].row_uses
       /\ (long_memory' # long_memory \/ \E p \in Procs : req'[p].result = "ok" /\ req[p].result # "ok") =>
              \E p \in Procs :
                  /\ req[p].pc = "respond" /\ req'[p].result = "ok"
                  /\ req[p].audits = 1
                  /\ AuditedFor(req[p])
                  /\ keys[req[p].api_key_id].uses > req[p].row_uses]_vars

C12_Witness ==
    \E p \in Procs :
        /\ req[p].result = "ok"
        /\ AuditedFor(req[p])
        /\ keys[req[p].api_key_id].uses = req[p].row_uses + 1
        /\ Recall(long_memory, req[p].email) = <<req[p].prompt>>

(***************************************************************************)
(* C13.  The audit log only grows at its end: every step leaves the        *)
(* entries already written as they are and appends at most one.  An        *)
(* appended entry is written by a request at its audit stage and carries   *)
(* the id and the owner of the key it consumed, the endpoint and the       *)
(* encrypted metadata; an answered request has written exactly one entry.  *)
(***************************************************************************)
IsPrefix(a, b) == Len(a) <= Len(b) /\ SubSeq(b, 1, Len(a)) = a

C13_AuditAppendOnly ==
    [][/\ IsPrefix(audit, audit')
       /\ Len(audit') <= Len(audit) + 1
       /\ audit' # audit =>
              \E p \in Procs :
                  LET e == audit'[Len(audit')]
                  IN  /\ req[p].pc = "audit"
                      /\ req'[p].audits = req[p].audits + 1
                      /\ e.api_key_id = req[p].api_key_id
                      /\ e.email = keys[req[p].api_key_id].email
                      /\ e.endpoint = "/ask"
                      /\ e.meta = encrypt_data([prompt_len |-> req[p].prompt.len])
                      /\ e.meta # [prompt_len |-> req[p].prompt.len]
       /\ \A p \in Procs : req'[p].result = "ok" => req'[p].audits = 1]_vars

C13_Witness ==
    /\ Len(audit) = 2
    /\ audit[1].api_key_id = audit[2].api_key_id
    /\ \A p \in Procs : req[p].result = "ok"

(***************************************************************************)
(* C14.  A step that adds a key record adds exactly one, at the end of the *)
(* table, on behalf of a logged-in session: use counter 0, not revoked,    *)
(* max_uses 1000, expiry 30 days after the issue time, owner the session's *)
(* e-mail, bound address the address of the issuing client, and a hash     *)
(* that verifies a plaintext no other record verifies.  The records that   *)
(* existed are unchanged.  A create_key call answered 401 comes from a     *)
(* session that is not logged in and leaves the table as it is.            *)
(***************************************************************************)
C14_IssueOneFreshKey ==
    [][/\ Len(keys') # Len(keys) =>
              /\ IsPrefix(keys, keys')
              /\ Len(keys') = Len(keys) + 1
              /\ \E s \in Sessions :
                    LET k == keys'[Len(keys')]
                    IN  /\ session[s] # NoEmail
                        /\ createResp'[s] = "api_key"
                        /\ k.email = session[s]
                        /\ k.bound_ip = SessionHost(s)
                        /\ k.uses = 0
                        /\ k.revoked = FALSE
                        /\ k.max_uses = 1000
                        /\ k.created = now
                        /\ k.expires_at = now + 30 * 24 * 60 * 60
                        /\ k.id \notin {keys[i].id : i \in DOMAIN keys}
                        /\ \E plain \in Headers' :
                              /\ verify_key(plain, k.key_hash)
                              /\ \A i \in DOMAIN keys : ~verify_key(plain, keys[i].key_hash)
       /\ \A s \in Sessions :
              (createResp'[s] = "401" /\ createResp[s] # "401") =>
                  (session[s] = NoEmail /\ keys' = keys)
       /\ \A s \in Sessions :
              (createResp'[s] # createResp[s] /\ session[s] = NoEmail) =>
                  (createResp'[s] = "401" /\ keys' = keys)]_vars

C14_Witness ==
    /\ Len(keys) = 2
    /\ createResp["s1"] = "api_key"
    /\ keys[2].email = "ann@x"
    /\ keys[2].uses = 0
    /\ keys[1].email = "bob@x"

(***************************************************************************)
(* C17.  A request that ends at the credential stage (no Authorization     *)
(* header, no matching key, expired key, exhausted key) has only run the   *)
(* header check and the scan; none of its steps changes a use counter,     *)
(* the audit log or the memory of the brain, and it has no audit entry.    *)
(***************************************************************************)
CredentialRejections == {"MissingKey", "NotFound", "Expired", "QuotaExhausted"}

C17_CredentialRejectionWritesNothing ==
    [][\A p \in Procs :
          /\ (req[p].pc \in {"idle", "verify"} /\ req'[p] # req[p]) =>
                /\ keys' = keys
                /\ audit' = audit
                /\ short_memory' = short_memory
                /\ long_memory' = long_memory
          /\ (req'[p].result \in CredentialRejections /\ req'[p] # req[p]) =>
                /\ req[p].pc \in {"idle", "verify"}
                /\ req'[p].pc = "done"
                /\ req'[p].audits = 0]_vars

C17_Witness ==
    \E p \in Procs : \E q \in Procs :
        /\ Rejected(req[p], "QuotaExhausted")
        /\ Rejected(req[q], "Expired")
        /\ keys[1].uses = API_KEY_MAX_USES
        /\ audit = <<>>
        /\ BrainCalls = 0

(***************************************************************************)
(* C19.  The UPDATE of an admitted request adds exactly 1 to the counter   *)
(* of the one key whose hash verified the presented plaintext and changes  *)
(* nothing else in the table; every counter grows in a step by the number  *)
(* of requests that run their UPDATE on it in that step, so a key issued   *)
(* in the run counts exactly the requests admitted for it.  The owner      *)
(* answered and written to the audit entry is the owner of that key.       *)
(***************************************************************************)
Consumes(p, i) ==
    req[p].pc = "update" /\ req'[p].pc = "audit" /\ req[p].api_key_id = keys[i].id

Consumed(r) ==
    \/ r.pc \in {"audit", "respond"}
    \/ r.result \in {"ok", "StorePersistenceFailure"}

C19_ExactlyOneIncrement ==
    [][/\ \A i \in DOMAIN keys :
             /\ keys'[i].uses =
                    keys[i].uses + Cardinality({p \in Procs : Consumes(p, i)})
             /\ [keys'[i] EXCEPT !.uses = keys[i].uses, !.revoked = keys[i].revoked]
                    = keys[i]
             /\ \A p \in Procs :
                    Consumes(p, i) =>
                        /\ Presented(p, i)
                        /\ req[p].email = keys[i].email
                        /\ \A j \in DOMAIN keys \ {i} : keys'[j] = keys[j]
                        /\ keys'[i].revoked = keys[i].revoked
       /\ \A i \in DOMAIN keys' :
             keys'[i].created >= StartTime =>
                 keys'[i].uses = Cardinality({p \in Procs :
                                     Consumed(req'[p]) /\ req'[p].api_key_id = keys'[i].id})
       /\ \A p \in Procs :
             req'[p].result = "ok" => req'[p].email = keys'[req'[p].api_key_id].email
       /\ audit' # audit =>
             audit'[Len(audit')].email = keys'[audit'[Len(audit')].api_key_id].email]_vars

C19_Witness ==
    /\ Len(keys) = 2
    /\ keys[2].uses = 2
    /\ \A p \in Procs : req[p].result = "ok" /\ req[p].api_key_id = 2
                                             /\ req[p].email = "ann@x"

(***************************************************************************)
(* C20.  Every audit entry references a row of api_keys, and no key has    *)
(* more audit entries than uses; when no request is in flight and no audit *)
(* write has failed the two numbers are equal.  The entries written for    *)
(* the startup row before the service started are not part of audit: for   *)
(* that row the entries are counted against the requests that have         *)
(* incremented it since the start.                                         *)
(***************************************************************************)
AuditCount(i) ==
    Cardinality({n \in DOMAIN audit : audit[n].api_key_id = keys[i].id})

UsesSinceStart(i) ==
    IF keys[i].created >= StartTime THEN keys[i].uses
    ELSE Cardinality({p \in Procs : Consumed(req[p]) /\ req[p].api_key_id = keys[i].id})

Quiet == \A p \in Procs : req[p].pc \in {"idle", "done"}

NoAuditFailure == \A p \in Procs : req[p].result # "StorePersistenceFailure"

C20_AuditWithinUses ==
    /\ \A n \in DOMAIN audit : \E i \in DOMAIN keys : keys[i].id = audit[n].api_key_id
    /\ \A i \in DOMAIN keys :
          /\ AuditCount(i) <= keys[i].uses
          /\ AuditCount(i) <= UsesSinceStart(i)
          /\ (Quiet /\ NoAuditFailure) => AuditCount(i) = UsesSinceStart(i)

C20_Witness ==
    /\ Quiet /\ NoAuditFailure
    /\ Len(keys) = 2
    /\ keys[2].uses = 1 /\ AuditCount(2) = 1
    /\ \E p \in Procs : req[p].result = "ok"
    /\ \E p \in Procs : req[p].result = "MissingKey"

(***************************************************************************)
(* Each /ask coroutine is resumed by the event loop whenever the statement *)
(* it awaits has completed: a request that can take its next step          *)
(* eventually takes it.  The audit INSERT completes by committing or by    *)
(* raising.                                                                *)
(***************************************************************************)
AskStep(p) ==
    \/ AskVerify(p)
    \/ AskUpdate(p)
    \/ AskAudit(p)
    \/ AskAuditFail(p)
    \/ AskRespond(p)

Fairness == \A p \in Procs : WF_vars(AskStep(p))

(* The table at startup: one row with one use left that expires at         *)
(* StartTime, so that requests are admitted, exhausted and expired.        *)
InitFair == Init /\ keys = <<StartupRow(API_KEY_MAX_USES - 1, 0)>>

FairSpec == InitFair /\ [][Next]_vars /\ Fairness

(***************************************************************************)
(* C18.  Under fair scheduling every /ask request that has started ends    *)
(* answered or rejected with a specific error, and a request that has not  *)
(* ended can always take its next step, whatever the other requests do.    *)
(***************************************************************************)
TerminalResults ==
    {"ok", "TooLong", "BlockedPattern", "MissingKey", "NotFound", "Expired",
     "QuotaExhausted", "StorePersistenceFailure"}

NoWaiting ==
    \A p \in Procs :
        /\ req[p].pc = "verify" => ENABLED AskVerify(p)
        /\ req[p].pc = "update" => ENABLED AskUpdate(p)
        /\ req[p].pc = "audit" => ENABLED AskAudit(p)
        /\ req[p].pc = "respond" => ENABLED AskRespond(p)

C18_EveryRequestTerminates ==
    /\ []NoWaiting
    /\ \A p \in Procs :
          (req[p].pc # "idle") ~>
              (req[p].pc = "done" /\ req[p].result \in TerminalResults)

C18_Witness ==
    /\ \A p \in Procs : req[p].pc = "done"
    /\ \E p \in Procs : req[p].result = "ok"
    /\ \E p \in Procs : req[p].result = "NotFound"

(***************************************************************************)
(* The firewall on its own: check_prompt applied to prompts of every       *)
(* length around the ceiling and every short sequence of words.            *)
(***************************************************************************)
Vocabulary == {"please", "ignore", "rules", "Hack", "ROOT", "nl"}

FirewallInputs ==
    {[len |-> n, words |-> w] :
        n \in {1, 4000, 4001, 5000, 5001},
        w \in UNION {[1..k -> Vocabulary] : k \in 0..MaxWords}}

FirewallCheck(prompt) ==
    /\ req[1].pc = "idle"
    /\ req' = [req EXCEPT ![1] =
                  Finish([IdleReq EXCEPT !.prompt = prompt], check_prompt(prompt))]
    /\ UNCHANGED <<now, session, users, keys, audit, short_memory, long_memory,
                   createResp>>

NextFirewall == \E prompt \in FirewallInputs : FirewallCheck(prompt)

SpecFirewall == Init /\ [][NextFirewall]_vars

(***************************************************************************)
(* C15.  The decision of the firewall is TooLong for every prompt of more  *)
(* than 4000 characters whatever its words, BlockedPattern for every       *)
(* prompt within the ceiling whose lower-cased words match a blocked       *)
(* pattern, and admission for every other prompt.                          *)
(***************************************************************************)
C15_FirewallDecision ==
    req[1].pc = "done" =>
        req[1].result = IF req[1].prompt.len > 4000 THEN "TooLong"
                        ELSE IF Disallowed(req[1].prompt) THEN "BlockedPattern"
                        ELSE "ok"

C15_Witness ==
    /\ req[1].result = "TooLong"
    /\ req[1].prompt.len = 5001
    /\ req[1].prompt.words = <<"ignore", "rules", "ROOT">>

(***************************************************************************)
(* The service started on a table that holds a row whose key_hash is no    *)
(* bcrypt hash, next to the startup row.  SELECT has no ORDER BY, so the   *)
(* row comes before or after the startup row in the scan.                  *)
(***************************************************************************)
MalformedHash == [alg |-> "malformed", salt |-> 0, digest |-> 0]

MalformedRow(n) ==
    [id |-> n, email |-> "eve@x", key_hash |-> MalformedHash,
     uses |-> 0, max_uses |-> API_KEY_MAX_USES, revoked |-> FALSE,
     expires_at |-> StartTime + ExpireSecs, created |-> StartTime, bound_ip |-> NoIP]

InitMalformed ==
    /\ now = StartTime
    /\ session = [s \in Sessions |-> NoEmail]
    /\ users = {"bob@x", "eve@x"}
    /\ keys \in UNION { { <<StartupRow(u, t), MalformedRow(2)>>,
                          <<MalformedRow(1), [StartupRow(u, t) EXCEPT !.id = 2]>> } :
                        u \in (API_KEY_MAX_USES - MaxRemaining)..API_KEY_MAX_USES,
                        t \in {0, 1} }
    /\ audit = <<>>
    /\ short_memory = [u \in {} |-> <<>>]
    /\ long_memory = [u \in {} |-> <<>>]
    /\ createResp = [s \in Sessions |-> "none"]
    /\ req = [p \in Procs |-> IdleReq]

NextMalformed ==
    \/ \E p \in Procs, prompt \in Prompts, key \in {NoHeader, UnknownPlain, 1} :
          AskStart(p, prompt, key)
    \/ \E p \in Procs : AskVerify(p)
    \/ \E p \in Procs : AskUpdate(p)
    \/ \E p \in Procs : AskAudit(p)
    \/ \E p \in Procs : AskAuditFail(p)
    \/ \E p \in Procs : AskRespond(p)

SpecMalformed == InitMalformed /\ [][NextMalformed]_vars

(***************************************************************************)
(* C16.  With a row of malformed hash in the table, the scan of /ask       *)
(* treats that row as not matching: a request that presents the plaintext  *)
(* of a valid key (not expired, below its limit) is admitted for that key, *)
(* and a request whose plaintext matches no row is rejected with NotFound. *)
(***************************************************************************)
C16_MalformedHashIsNoMatch ==
    [][\A p \in Procs :
          (VerifyStep(p) /\ \E i \in DOMAIN keys : keys[i].key_hash = MalformedHash) =>
              /\ \A i \in DOMAIN keys :
                    (Presented(p, i) /\ ~IsExpired(keys[i], now) /\ ~LimitReached(keys[i]))
                        => Admitted(req'[p], keys[i])
              /\ (\A i \in DOMAIN keys : ~Presented(p, i))
                        => Rejected(req'[p], "NotFound")]_vars

Spec == Init /\ [][Next]_vars
====
